---- MODULE Spec2Model ----
(***************************************************************************)
(* Model of degen-fund-bot (src/src/main.rs): a single run of main(), which *)
(* reads four environment variables, loads a keypair, fetches a base64      *)
(* transaction, decodes it, fills the caller's signature slot, submits the  *)
(* transaction and reports its identifier.                                  *)
(***************************************************************************)
EXTENDS Integers, Sequences, FiniteSets, TLC

\* ------------------------------------------------------------------ bounds
MaxAccounts == 3
MaxSigs == 3

\* ---------------------------------------------------------------- universe
\* The caller's public key (keypair.pubkey()) and one foreign key.
OurKey == "A"
OtherKey == "B"
Pubkeys == {OurKey, OtherKey}

\* The environment variables main() reads, in the order it reads them.
EnvVars == <<"SOLANA_RPC_URL", "PRIVATE_KEY_BASE58", "BUY_AMOUNT", "TOKEN_TO_BUY">>
EnvNames == {EnvVars[i] : i \in 1..Len(EnvVars)}

\* Shapes of the PRIVATE_KEY_BASE58 value.
KeyInputs == {"valid", "not_base58", "bad_bytes"}

\* Identifiers the node may return from send_transaction.
TxIds == {"5abc", "9xyz"}

\* Option<T> is a sequence of length 0 (None) or 1 (Some).
None == <<>>
Some(x) == <<x>>

\* ------------------------------------------------------------ transactions
\* Message bodies (instructions + recent blockhash) that occur.
Bodies == {"m1"}

SeqsUpTo(S, n) == UNION {[1..k -> S] : k \in 0..n}

\* Message: header.num_required_signatures, account_keys, and the body.
Messages ==
    [num_required_signatures : 0..MaxAccounts,
     account_keys : SeqsUpTo(Pubkeys, MaxAccounts),
     body : Bodies]

\* Transaction::message_data(): the serialized message (signatures excluded).
message_data(t) ==
    <<t.message.num_required_signatures, t.message.account_keys, t.message.body>>

\* Signature::default(): the all-zero signature.
DefaultSignature == [signer |-> "none", over |-> <<>>]

\* Keypair::sign_message(): deterministic, never the all-zero value.
sign_message(key, data) == [signer |-> key, over |-> data]

\* A signature by another party, and a stale one over different bytes.
ForeignSignature(data) == [signer |-> OtherKey, over |-> data]
StaleSignature == [signer |-> OurKey, over |-> <<>>]

SignaturesFor(m) ==
    LET data == <<m.num_required_signatures, m.account_keys, m.body>>
    IN  {DefaultSignature, sign_message(OurKey, data), ForeignSignature(data),
         StaleSignature}

\* Every transaction bincode::deserialize can yield: the wire format does not
\* tie the length of the signature array to the message header.
Transactions ==
    UNION {[message : {m}, signatures : SeqsUpTo(SignaturesFor(m), MaxSigs)]
           : m \in Messages}

\* Response bodies of the endpoint.
Responses ==
    {[kind |-> "not_base64", tx |-> None], [kind |-> "not_tx", tx |-> None]}
    \cup {[kind |-> "tx", tx |-> Some(t)] : t \in Transactions}

VARIABLES
    pc,          \* position of main()
    env,         \* set of environment variables that are set
    keyInput,    \* shape of PRIVATE_KEY_BASE58
    keypair,     \* Option: public key of the loaded keypair
    response,    \* Option: text of the fetched response
    txDecoded,   \* Option: the transaction as deserialized
    tx,          \* Option: the (mutable) transaction
    started,     \* sequence of stages started so far
    completed,   \* set of stages that returned successfully
    failedStage, \* stage that failed, or "none"
    error,       \* error / panic that ended the run, or "none"
    exitStatus,  \* Option: process exit status
    keyDecodes,  \* number of bs58::decode calls
    fetchCalls,  \* number of reqwest::get calls
    signCalls,   \* number of keypair.sign_message calls
    sendCalls,   \* number of client.send_transaction calls
    receipt,     \* Option: signature returned by send_transaction
    reported     \* Option: identifier and URL logged by main()

vars == <<pc, env, keyInput, keypair, response, txDecoded, tx, started, completed,
          failedStage, error, exitStatus, keyDecodes, fetchCalls, signCalls,
          sendCalls, receipt, reported>>

Init ==
    /\ pc = "read_env"
    /\ env \in SUBSET EnvNames
    /\ keyInput \in KeyInputs
    /\ keypair = None
    /\ response = None
    /\ txDecoded = None
    /\ tx = None
    /\ started = <<>>
    /\ completed = {}
    /\ failedStage = "none"
    /\ error = "none"
    /\ exitStatus = None
    /\ keyDecodes = 0
    /\ fetchCalls = 0
    /\ signCalls = 0
    /\ sendCalls = 0
    /\ receipt = None
    /\ reported = None

\* ----------------------------------------------------------------- helpers
\* Variant: TOKEN_TO_BUY read without expect() (a missing value goes unnoticed).
FirstMissing_SkipLast(e) ==
    LET missing == {i \in 1..(Len(EnvVars) - 1) : EnvVars[i] \notin e}
    IN  IF missing = {} THEN None
        ELSE Some(EnvVars[CHOOSE i \in missing : \A j \in missing : i <= j])

\* The first variable, in reading order, whose env::var(..).expect(..) panics.
FirstMissing(e) ==
    LET missing == {i \in 1..Len(EnvVars) : EnvVars[i] \notin e}
    IN  IF missing = {} THEN None
        ELSE Some(EnvVars[CHOOSE i \in missing : \A j \in missing : i <= j])

\* The panic message of each expect().
ExpectMessage(var) ==
    CASE var = "SOLANA_RPC_URL" -> "SOLANA_RPC_URL must be set in .env"
      [] var = "PRIVATE_KEY_BASE58" -> "PRIVATE_KEY_BASE58 must be set in .env"
      [] var = "BUY_AMOUNT" -> "BUY_AMOUNT must be set in .env"
      [] var = "TOKEN_TO_BUY" -> "TOKEN_TO_BUY must be set in .env"

\* Variant: rposition, the index of the last match.
position_Last(keys, key) ==
    LET hits == {i \in 1..Len(keys) : keys[i] = key}
    IN  IF hits = {} THEN None
        ELSE Some((CHOOSE i \in hits : \A j \in hits : i >= j) - 1)

\* Iterator::position: the 0-based index of the first match, or None.
position(keys, key) ==
    LET hits == {i \in 1..Len(keys) : keys[i] = key}
    IN  IF hits = {} THEN None
        ELSE Some((CHOOSE i \in hits : \A j \in hits : i <= j) - 1)

\* base64 STANDARD.decode of the response text: the bytes, or a DecodeError.
Base64Decode(resp) ==
    IF resp.kind = "not_base64" THEN [ok |-> FALSE, bytes |-> resp]
    ELSE [ok |-> TRUE, bytes |-> resp]

\* Variant: deserialize(..).unwrap_or_default(), an empty transaction on error.
Deserialize_OrDefault(bytes) ==
    IF bytes.kind = "tx" THEN bytes.tx
    ELSE Some([message |-> [num_required_signatures |-> 0, account_keys |-> <<>>,
                            body |-> "m1"],
               signatures |-> <<>>])

\* bincode::deserialize::<Transaction>: the transaction, or an error.
Deserialize(bytes) ==
    IF bytes.kind = "tx" THEN bytes.tx ELSE None

\* Variant: a missing caller is not an error.
FillSlot_IgnoreMissing(t, key) ==
    LET our_signature_index == position(t.message.account_keys, key)
    IN  IF our_signature_index = None
        THEN [outcome |-> "ok", tx |-> t, signs |-> 0]
        ELSE LET index == our_signature_index[1]
             IN  IF index >= Len(t.signatures)
                 THEN [outcome |-> "index out of bounds", tx |-> t, signs |-> 0]
                 ELSE IF t.signatures[index + 1] = DefaultSignature
                 THEN [outcome |-> "ok",
                       tx |-> [t EXCEPT !.signatures[index + 1] =
                                   sign_message(key, message_data(t))],
                       signs |-> 1]
                 ELSE [outcome |-> "ok", tx |-> t, signs |-> 0]

\* Variant: the slot is signed without the Signature::default() test.
FillSlot_AlwaysSign(t, key) ==
    LET our_signature_index == position(t.message.account_keys, key)
    IN  IF our_signature_index = None
        THEN [outcome |-> "Our public key is not in the list of signers",
              tx |-> t, signs |-> 0]
        ELSE LET index == our_signature_index[1]
             IN  IF index >= Len(t.signatures)
                 THEN [outcome |-> "index out of bounds", tx |-> t, signs |-> 0]
                 ELSE [outcome |-> "ok",
                       tx |-> [t EXCEPT !.signatures[index + 1] =
                                   sign_message(key, message_data(t))],
                       signs |-> 1]

\* Variant: every empty slot is filled, not only the caller's.
FillSlot_SignAllEmpty(t, key) ==
    LET our_signature_index == position(t.message.account_keys, key)
    IN  IF our_signature_index = None
        THEN [outcome |-> "Our public key is not in the list of signers",
              tx |-> t, signs |-> 0]
        ELSE LET index == our_signature_index[1]
             IN  IF index >= Len(t.signatures)
                 THEN [outcome |-> "index out of bounds", tx |-> t, signs |-> 0]
                 ELSE IF t.signatures[index + 1] = DefaultSignature
                 THEN [outcome |-> "ok",
                       tx |-> [t EXCEPT !.signatures =
                                   [i \in 1..Len(t.signatures) |->
                                       IF t.signatures[i] = DefaultSignature
                                       THEN sign_message(key, message_data(t))
                                       ELSE t.signatures[i]]],
                       signs |-> 1]
                 ELSE [outcome |-> "ok", tx |-> t, signs |-> 0]

\* The signing block of main(): locate the caller, sign an empty slot.
\* signatures[index] panics when index is not below the array's length.
FillSlot(t, key) ==
    LET our_signature_index == position(t.message.account_keys, key)
    IN  IF our_signature_index = None
        THEN [outcome |-> "Our public key is not in the list of signers",
              tx |-> t, signs |-> 0]
        ELSE LET index == our_signature_index[1]
             IN  IF index >= Len(t.signatures)
                 THEN [outcome |-> "index out of bounds", tx |-> t, signs |-> 0]
                 ELSE IF t.signatures[index + 1] = DefaultSignature
                 THEN [outcome |-> "ok",
                       tx |-> [t EXCEPT !.signatures[index + 1] =
                                   sign_message(key, message_data(t))],
                       signs |-> 1]
                 ELSE [outcome |-> "ok", tx |-> t, signs |-> 0]

\* Variant: the explorer's account page instead of its transaction page.
solscan_url_Account(signature) == <<"https://solscan.io/account/", signature>>

\* format!("https://solscan.io/tx/{}", signature)
solscan_url(signature) == <<"https://solscan.io/tx/", signature>>

\* ----------------------------------------------------------------- actions
\* `?` on an Err: main returns the error, the process exits with status 1.
ReturnErr(stage, err) ==
    /\ pc' = "failed"
    /\ failedStage' = stage
    /\ error' = err
    /\ exitStatus' = Some(1)

\* A panic unwinds main: the process exits with status 101.
Panic(stage, msg) ==
    /\ pc' = "panicked"
    /\ failedStage' = stage
    /\ error' = msg
    /\ exitStatus' = Some(101)

Continue(next) ==
    /\ pc' = next
    /\ UNCHANGED <<failedStage, error, exitStatus>>

\* Lines 50-54: the four env::var(..).expect(..) reads.
ReadEnv ==
    /\ pc = "read_env"
    /\ LET missing == FirstMissing(env)
       IN  IF missing # None
           THEN Panic("config", ExpectMessage(missing[1]))
           ELSE Continue("load_key")
    /\ UNCHANGED <<env, keyInput, keypair, response, txDecoded, tx, started,
                   completed, keyDecodes, fetchCalls, signCalls, sendCalls,
                   receipt, reported>>

\* Lines 57-59: bs58::decode(..)?, Keypair::from_bytes(..)?.
LoadKey ==
    /\ pc = "load_key"
    /\ started' = Append(started, "key")
    /\ keyDecodes' = keyDecodes + 1
    /\ CASE keyInput = "not_base58" ->
              /\ ReturnErr("key", "bs58::decode::Error")
              /\ UNCHANGED <<keypair, completed>>
         [] keyInput = "bad_bytes" ->
              /\ ReturnErr("key", "ed25519::SignatureError")
              /\ UNCHANGED <<keypair, completed>>
         [] keyInput = "valid" ->
              /\ keypair' = Some(OurKey)
              /\ completed' = completed \cup {"key"}
              /\ Continue("fetch_get")
    /\ UNCHANGED <<env, keyInput, response, txDecoded, tx, fetchCalls,
                   signCalls, sendCalls, receipt, reported>>

\* Line 86, first await: reqwest::get(&url).await?
FetchGet ==
    /\ pc = "fetch_get"
    /\ started' = Append(started, "fetch")
    /\ fetchCalls' = fetchCalls + 1
    /\ \E ok \in BOOLEAN :
          IF ok THEN Continue("fetch_text")
          ELSE ReturnErr("fetch", "reqwest::Error")
    /\ UNCHANGED <<env, keyInput, keypair, response, txDecoded, tx, completed,
                   keyDecodes, signCalls, sendCalls, receipt, reported>>

\* Line 86, second await: .text().await?
FetchText ==
    /\ pc = "fetch_text"
    /\ \/ /\ ReturnErr("fetch", "reqwest::Error")
          /\ UNCHANGED <<response, completed>>
       \/ \E r \in Responses :
             /\ response' = Some(r)
             /\ completed' = completed \cup {"fetch"}
             /\ Continue("decode")
    /\ UNCHANGED <<env, keyInput, keypair, txDecoded, tx, started, keyDecodes,
                   fetchCalls, signCalls, sendCalls, receipt, reported>>

\* Lines 87-88: base64 decode?, bincode::deserialize?.
Decode ==
    /\ pc = "decode"
    /\ started' = Append(started, "decode")
    /\ LET byte_tx == Base64Decode(response[1])
       IN  IF ~byte_tx.ok
           THEN /\ ReturnErr("decode", "base64::DecodeError")
                /\ UNCHANGED <<txDecoded, tx, completed>>
           ELSE LET t == Deserialize(byte_tx.bytes)
                IN  IF t = None
                    THEN /\ ReturnErr("decode", "bincode::Error")
                         /\ UNCHANGED <<txDecoded, tx, completed>>
                    ELSE /\ txDecoded' = t
                         /\ tx' = t
                         /\ completed' = completed \cup {"decode"}
                         /\ Continue("fill")
    /\ UNCHANGED <<env, keyInput, keypair, response, keyDecodes, fetchCalls,
                   signCalls, sendCalls, receipt, reported>>

\* Variant: the SignerNotFound error is recorded but main() goes on to submit.
Fill_GoOn ==
    /\ pc = "fill"
    /\ started' = Append(started, "fill")
    /\ LET r == FillSlot(tx[1], keypair[1])
       IN  /\ tx' = Some(r.tx)
           /\ signCalls' = signCalls + r.signs
           /\ CASE r.outcome = "ok" ->
                     /\ completed' = completed \cup {"fill"}
                     /\ Continue("send")
                [] r.outcome = "index out of bounds" ->
                     /\ Panic("fill", r.outcome)
                     /\ UNCHANGED completed
                [] OTHER ->
                     /\ pc' = "send"
                     /\ failedStage' = "fill"
                     /\ error' = r.outcome
                     /\ UNCHANGED <<exitStatus, completed>>
    /\ UNCHANGED <<env, keyInput, keypair, response, txDecoded, keyDecodes,
                   fetchCalls, sendCalls, receipt, reported>>

\* Lines 91-109: the signing block.
Fill ==
    /\ pc = "fill"
    /\ started' = Append(started, "fill")
    /\ LET r == FillSlot(tx[1], keypair[1])
       IN  /\ tx' = Some(r.tx)
           /\ signCalls' = signCalls + r.signs
           /\ CASE r.outcome = "ok" ->
                     /\ completed' = completed \cup {"fill"}
                     /\ Continue("send")
                [] r.outcome = "index out of bounds" ->
                     /\ Panic("fill", r.outcome)
                     /\ UNCHANGED completed
                [] OTHER ->
                     /\ ReturnErr("fill", r.outcome)
                     /\ UNCHANGED completed
    /\ UNCHANGED <<env, keyInput, keypair, response, txDecoded, keyDecodes,
                   fetchCalls, sendCalls, receipt, reported>>

\* Variant: a failed submission is attempted again.
Send_Retry ==
    /\ pc = "send"
    /\ started' = Append(started, "submit")
    /\ sendCalls' = sendCalls + 1
    /\ \/ /\ Continue("send")
          /\ UNCHANGED <<receipt, completed>>
       \/ \E id \in TxIds :
             /\ receipt' = Some(id)
             /\ completed' = completed \cup {"submit"}
             /\ Continue("report")
    /\ UNCHANGED <<env, keyInput, keypair, response, txDecoded, tx, keyDecodes,
                   fetchCalls, signCalls, reported>>

\* Line 124: client.send_transaction(&tx)?
Send ==
    /\ pc = "send"
    /\ started' = Append(started, "submit")
    /\ sendCalls' = sendCalls + 1
    /\ \/ /\ ReturnErr("submit", "ClientError")
          /\ UNCHANGED <<receipt, completed>>
       \/ \E id \in TxIds :
             /\ receipt' = Some(id)
             /\ completed' = completed \cup {"submit"}
             /\ Continue("report")
    /\ UNCHANGED <<env, keyInput, keypair, response, txDecoded, tx, keyDecodes,
                   fetchCalls, signCalls, reported>>

\* Lines 126-139: log the signature and the Solscan URL, return Ok(()).
Report ==
    /\ pc = "report"
    /\ reported' = Some([signature |-> receipt[1], url |-> solscan_url(receipt[1])])
    /\ pc' = "done"
    /\ exitStatus' = Some(0)
    /\ UNCHANGED <<env, keyInput, keypair, response, txDecoded, tx, started,
                   completed, failedStage, error, keyDecodes, fetchCalls,
                   signCalls, sendCalls, receipt>>

Next ==
    \/ ReadEnv
    \/ LoadKey
    \/ FetchGet
    \/ FetchText
    \/ Decode
    \/ Fill
    \/ Send
    \/ Report

Spec == Init /\ [][Next]_vars

\* ------------------------------------------------------------- properties
Stages == <<"key", "fetch", "decode", "fill", "submit">>

Started(stage) == \E i \in 1..Len(started) : started[i] = stage

Terminal == pc \in {"done", "failed", "panicked"}

SignerNotFound == "Our public key is not in the list of signers"

\* 1-based index of the first occurrence of the caller in the account list of
\* t, or 0 when the caller is absent.
CallerIndex(t) ==
    LET keys == t.message.account_keys
    IN  IF \E i \in 1..Len(keys) : keys[i] = OurKey
        THEN CHOOSE i \in 1..Len(keys) :
                 keys[i] = OurKey /\ \A j \in 1..(i - 1) : keys[j] # OurKey
        ELSE 0

\* The caller's slot exists and holds a non-default value / the default value.
CallerSlotFilled(t) ==
    /\ CallerIndex(t) \in 1..Len(t.signatures)
    /\ t.signatures[CallerIndex(t)] # DefaultSignature

CallerSlotEmpty(t) ==
    /\ CallerIndex(t) \in 1..Len(t.signatures)
    /\ t.signatures[CallerIndex(t)] = DefaultSignature

\* Positions at which the signature array differs from the decoded one.
WrittenSlots ==
    {i \in 1..Len(txDecoded[1].signatures) :
        tx[1].signatures[i] # txDecoded[1].signatures[i]}

\* C1: when the decoded transaction's account list does not contain the
\* caller's key, the signing block ends in the SignerNotFound error, every
\* signature slot keeps its value, sign_message is never called and the
\* submission stage is never started.
C1_SignerNotFound ==
    (txDecoded # None /\ CallerIndex(txDecoded[1]) = 0) =>
        /\ tx = txDecoded
        /\ signCalls = 0
        /\ sendCalls = 0
        /\ ~Started("submit")
        /\ Started("fill") =>
              /\ pc = "failed"
              /\ failedStage = "fill"
              /\ error = SignerNotFound

C1_Witness ==
    /\ txDecoded # None
    /\ CallerIndex(txDecoded[1]) = 0
    /\ Len(txDecoded[1].signatures) >= 1
    /\ Len(txDecoded[1].message.account_keys) >= 1
    /\ Started("fill")
    /\ pc = "failed"

\* C2: when the caller's slot already holds a non-default value the signing
\* block succeeds without calling sign_message and leaves the transaction as
\* decoded; and running the signing block again on the result of any
\* successful run changes nothing and signs nothing.
C2_AlreadySignedNoOp ==
    /\ (txDecoded # None /\ CallerSlotFilled(txDecoded[1])) =>
          /\ tx = txDecoded
          /\ signCalls = 0
          /\ Started("fill") => ("fill" \in completed /\ failedStage # "fill")
    /\ "fill" \in completed =>
          LET again == FillSlot(tx[1], keypair[1])
          IN  /\ again.outcome = "ok"
              /\ again.tx = tx[1]
              /\ again.signs = 0

C2_Witness ==
    /\ txDecoded # None
    /\ CallerSlotFilled(txDecoded[1])
    /\ "fill" \in completed
    /\ pc = "send"

\* C3: when the caller's slot is empty, after the signing block that slot
\* holds the caller's signature over message_data, every other slot and the
\* message are as decoded, and sign_message was called once; in every run at
\* most one slot differs from the decoded transaction.
C3_FillsOnlyCallerSlot ==
    txDecoded # None =>
        /\ tx[1].message = txDecoded[1].message
        /\ Len(tx[1].signatures) = Len(txDecoded[1].signatures)
        /\ Cardinality(WrittenSlots) <= 1
        /\ signCalls <= 1
        /\ (CallerSlotEmpty(txDecoded[1]) /\ ~Started("fill")) => tx = txDecoded
        /\ (CallerSlotEmpty(txDecoded[1]) /\ Started("fill")) =>
              /\ "fill" \in completed
              /\ signCalls = 1
              /\ tx[1].signatures[CallerIndex(txDecoded[1])] =
                    sign_message(OurKey, message_data(txDecoded[1]))
              /\ WrittenSlots = {CallerIndex(txDecoded[1])}

C3_Witness ==
    /\ txDecoded # None
    /\ CallerSlotEmpty(txDecoded[1])
    /\ "fill" \in completed
    /\ CallerIndex(txDecoded[1]) = 2
    /\ \E j \in 1..Len(txDecoded[1].signatures) :
          j # 2 /\ txDecoded[1].signatures[j] = DefaultSignature

\* Indexes of the account list, after the first, that also hold the caller.
LaterCallerIndexes(t) ==
    {j \in 1..Len(t.message.account_keys) :
        t.message.account_keys[j] = OurKey /\ j > CallerIndex(t)}

\* C4: when the caller's key occurs more than once in the account list, only
\* the slot at the smallest matching index is ever written (and is written when
\* it is empty); the slot at every later matching index keeps its value, also
\* when the first is filled and a later one is empty.
C4_FirstMatchOnly ==
    (txDecoded # None /\ LaterCallerIndexes(txDecoded[1]) # {}) =>
        /\ WrittenSlots \subseteq {CallerIndex(txDecoded[1])}
        /\ \A j \in LaterCallerIndexes(txDecoded[1]) :
              j <= Len(txDecoded[1].signatures) =>
                 tx[1].signatures[j] = txDecoded[1].signatures[j]
        /\ (Started("fill") /\ CallerSlotEmpty(txDecoded[1])) =>
              WrittenSlots = {CallerIndex(txDecoded[1])}

C4_Witness ==
    /\ txDecoded # None
    /\ "fill" \in completed
    /\ CallerSlotFilled(txDecoded[1])
    /\ \E j \in LaterCallerIndexes(txDecoded[1]) :
          /\ j <= Len(txDecoded[1].signatures)
          /\ txDecoded[1].signatures[j] = DefaultSignature
          /\ tx[1].signatures[j] = DefaultSignature

\* The stages are started in the order of Stages, each after all before it
\* have completed; nothing is started or completed once a stage has failed.
StagesInOrder ==
    /\ Len(started) <= Len(Stages)
    /\ \A i \in 1..Len(started) : started[i] = Stages[i]
    /\ \A i \in 1..(Len(started) - 1) : started[i] \in completed
    /\ completed \subseteq {started[i] : i \in 1..Len(started)}
    /\ failedStage # "none" =>
          /\ Terminal
          /\ pc # "done"
          /\ failedStage \notin completed
          /\ failedStage \in {"config"} \cup {started[i] : i \in 1..Len(started)}
    /\ Started("submit") =>
          /\ response # None
          /\ txDecoded # None
          /\ "fill" \in completed
          /\ tx[1] = FillSlot(txDecoded[1], keypair[1]).tx

\* C5: key loading, fetch, decode, slot filling and submission run strictly in
\* that order, each only after the earlier ones completed successfully;
\* submission is only attempted on a fetched, decoded and filled transaction;
\* once a stage has failed the run is in a terminal error and no stage is
\* started afterwards.
C5_StrictSequence ==
    /\ []StagesInOrder
    /\ [][failedStage # "none" => (started' = started /\ completed' = completed)]_vars

C5_Witness ==
    /\ started = Stages
    /\ failedStage = "submit"
    /\ signCalls = 1

\* C6: the fetch request and the submission call are each issued at most once;
\* after a failed fetch or a failed submission the run is over: no further
\* step of any kind is taken.
C6_NoRetry ==
    /\ [](fetchCalls <= 1 /\ sendCalls <= 1)
    /\ [][~Terminal]_vars

C6_Witness ==
    /\ pc = "failed"
    /\ failedStage = "submit"
    /\ sendCalls = 1
    /\ fetchCalls = 1
    /\ signCalls = 1

\* C7: when the response body is not valid base64, or its bytes do not
\* deserialize into a transaction, the decode stage fails and the run ends
\* without any call of sign_message or send_transaction.
C7_DecodeFailureStops ==
    (response # None /\ response[1].kind \in {"not_base64", "not_tx"}) =>
        /\ tx = None
        /\ signCalls = 0
        /\ sendCalls = 0
        /\ ~Started("fill")
        /\ ~Started("submit")
        /\ Started("decode") =>
              /\ pc = "failed"
              /\ failedStage = "decode"
              /\ error = (IF response[1].kind = "not_base64"
                          THEN "base64::DecodeError" ELSE "bincode::Error")

C7_Witness ==
    /\ response # None
    /\ response[1].kind = "not_tx"
    /\ Started("decode")
    /\ pc = "failed"

\* C8: when any of the four environment variables is missing the run ends in
\* a panic before the pipeline starts: no key is decoded, nothing is fetched,
\* signed or submitted.
C8_MissingEnvIsFatal ==
    (env # EnvNames) =>
        /\ pc \in {"read_env", "panicked"}
        /\ started = <<>>
        /\ keyDecodes = 0
        /\ fetchCalls = 0
        /\ signCalls = 0
        /\ sendCalls = 0
        /\ pc = "panicked" =>
              /\ failedStage = "config"
              /\ exitStatus = Some(101)
              /\ \E v \in EnvNames \ env : error = ExpectMessage(v)

C8_Witness ==
    /\ env = EnvNames \ {"TOKEN_TO_BUY"}
    /\ pc = "panicked"

\* The diagnostics each stage can end the run with.
StageMessages ==
    [config |-> {ExpectMessage(v) : v \in EnvNames},
     key |-> {"bs58::decode::Error", "ed25519::SignatureError"},
     fetch |-> {"reqwest::Error"},
     decode |-> {"base64::DecodeError", "bincode::Error"},
     fill |-> {SignerNotFound, "index out of bounds"},
     submit |-> {"ClientError"}]

C10_IndexInRange ==
    /\ txDecoded # None =>
          CallerIndex(txDecoded[1]) <= Len(txDecoded[1].signatures)
    /\ error # "index out of bounds"
    /\ pc # "panicked" \/ failedStage # "fill"
====
